---- MODULE Spec2Model ----
(***************************************************************************)
(* Resource Reservation & Availability Engine of colab_erp.                *)
(*                                                                         *)
(* Part I  (SpecPool): AgentPoolManager.get_agent_connection, the circuit  *)
(*          breaking, retrying connection guard of src/agents.             *)
(* Part II: the bookings table, its writers (db.create_booking,            *)
(*          BookingService.create_enhanced_booking,                        *)
(*          RoomApprovalService.assign_room / reject_booking) and the      *)
(*          room conflict queries, under three specifications:             *)
(*          SpecTxn   concurrent callers of db.create_booking,             *)
(*          SpecBook  concurrent sessions creating and approving,          *)
(*          SpecQuery one session writing and asking the queries.          *)
(* The range-exclusion constraint of the bookings table and the rows of    *)
(* rooms are not in the sources; they follow the specification.            *)
(***************************************************************************)
EXTENDS Integers, Sequences, FiniteSets, TLC

(***************************************************************************)
(* PART I -- the connection guard (src/src/agents/pool_manager.py)         *)
(***************************************************************************)

\* Bound of the model: the handles the underlying pool can hand out to the
\* modelled callers.
NumHandles == 2

\* The agents that call get_agent_connection concurrently (their agent_id).
Callers == {"auditor_v1", "worker"}
Handles == 1..NumHandles
None == 0

\* Program constants. Delays are in tenths of a second, saturation in percent.
SATURATION_THRESHOLD == 90
BACKOFF_BASE == 5
BACKOFF_MAX == 50
MAX_RETRIES == 3
estimated_ui_connections == 8
maxconn == 20

\* Handles that agents outside the modelled callers hold for the whole run:
\* the value of _connection_count when the modelled callers start.
InitialCounts == {0, 10, 11}

VARIABLES
  connection_count,  \* AgentPoolManager._connection_count
  inPool,            \* handles the underlying pool can hand out
  txn,               \* per handle: "idle" or "open" (a transaction is open)
  pc,                \* per caller: position in get_agent_connection
  conn,              \* per caller: the local variable conn (None or a handle)
  retry_count,       \* per caller: the local variable retry_count
  backoff_delay,     \* per caller: the local variable backoff_delay
  thrown,            \* per caller: the with-block has exited by an exception
  exc,               \* per caller: the exception leaving the generator
  result,            \* per caller: what the with statement gave the caller
  getconn_called,    \* per caller: calls of pool.getconn (as _FakePool counts)
  acquired,          \* per caller: calls of pool.getconn that returned a handle
  putconn_called,    \* per caller: calls of pool.putconn
  yielded,           \* per caller: handles yielded into the with-block
  delta,             \* per caller: net change the call made to the count
  sleeps             \* per caller: the delays passed to time.sleep, in order

poolVars == <<connection_count, inPool, txn, pc, conn, retry_count,
              backoff_delay, thrown, exc, result, getconn_called, acquired,
              putconn_called, yielded, delta, sleeps>>

(***************************************************************************)
(* PART II -- the bookings table, its writers and the room conflict        *)
(* queries (src/src/db.py, src/src/models/*.py)                            *)
(***************************************************************************)

\* Bound of the model: rows the bookings table may hold.
MaxBookings == 2

\* The sessions that issue reservation operations concurrently.
Clients == {"admin", "staff"}

\* rooms: 1 and 2 are the halves of the splittable room 3 (parent_room_id).
Rooms == {1, 2, 3}
ParentRoom(r) == IF r \in {1, 2} THEN 3 ELSE None

\* Two rooms share physical space: a combined room and one of its halves.
Combinable(a, b) ==
  /\ a \in Rooms /\ b \in Rooms
  /\ ParentRoom(a) = b \/ ParentRoom(b) = a

Tenants == {"TECH", "TRAINING"}
Terminal == {"Rejected", "Cancelled"}

\* status IN ('Room Assigned', 'Confirmed') of the conflict queries
ActiveStatuses == {"Room Assigned", "Confirmed"}

\* Time: each day has the instants the code uses, in this order.
SlotsPerDay == 4
T0000 == 0
T0730 == 1
T1630 == 2
T2359 == 3
At(d, slot) == (d - 1) * SlotsPerDay + slot

\* lower(booking_period)::date and upper(booking_period)::date
DateOf(t) == (t \div SlotsPerDay) + 1

VARIABLES
  bookings,   \* the committed rows of the bookings table; the id is the index
  cpc,        \* per client: position in the operation it is running
  job,        \* per client: the arguments and pending write of that operation
  res,        \* per client: the outcome of its last finished operation
  lastCheck   \* the last conflict query and its result, while still current

bookVars == <<bookings, cpc, job, res, lastCheck>>

\* devices: 1 and 2 are in service, 3 is retired; all of one category.
Devices == {1, 2, 3}
DeviceStatus(d) == IF d = 3 THEN "retired" ELSE "available"

VARIABLES
  assignments,   \* booking_device_assignments rows with a device:
                 \* <<device_id, booking_id>>
  placeholders,  \* bookings holding a category-level row (device_id NULL)
  lastDevice,    \* the last device query and its result, while still current
  managers,      \* the AgentPoolManager instances created so far
  manager_instance, \* the module global _manager_instance (an id, or None)
  gpc,           \* per agent under construction: its position
  got,           \* per agent: the _pool_manager of the agent and of its
                 \* AuditLogger
  free,          \* the handles the pool of db.py holds, not checked out
  hpc,           \* per client: position in run_transaction or assign_room
  hconn,         \* per client: the handles in its local variables conn
  work,          \* per handle: the client whose uncommitted work is on it,
                 \* or "nobody"
  hres           \* per client: the outcome of its last operation on the pool

devVars == <<assignments, placeholders, lastDevice>>
singletonVars == <<managers, manager_instance, gpc, got>>
handleVars == <<free, hpc, hconn, work, hres>>

vars == <<poolVars, bookVars, devVars, singletonVars, handleVars>>

(***************************************************************************)
(* Part I, continued: operators and actions of the connection guard        *)
(***************************************************************************)

Min(a, b) == IF a < b THEN a ELSE b
Max(a, b) == IF a > b THEN a ELSE b

\* Mutant: the estimate forgets the UI tier's connections.
CheckPoolSaturation_NoUiEstimate(count) == (count * 100) \div maxconn

\* _check_pool_saturation: (count + 8) / 20.0, here in percent.
CheckPoolSaturation(count) ==
  ((count + estimated_ui_connections) * 100) \div maxconn

\* The circuit breaker test at the head of get_agent_connection.
BreakerTrips(count) == CheckPoolSaturation(count) > SATURATION_THRESHOLD

\* min(backoff_delay * 2, BACKOFF_MAX)
NextBackoff(d) == Min(d * 2, BACKOFF_MAX)

\* Mutant: the retry bound is off by one.
RetriesLeft_OffByOne(n) == n <= MAX_RETRIES

\* The while condition of the retry loop.
RetriesLeft(n) == n < MAX_RETRIES

\* max(0, count - 1)
Decremented(count) == Max(0, count - 1)

\* Mutant: the release forgets to roll back.
RolledBack_Skipped(t) == t

\* conn.rollback(): the transaction state of the handle afterwards.
RolledBack(t) == "idle"

\* What the caller's with statement ends with, given the exception that
\* leaves the generator ("none": the block ran to its end).
Outcome(e) == IF e = "none" THEN "ok" ELSE e

NoJob == [kind |-> "none"]
NoCheck == [impl |-> "none"]

NoQuery == [query |-> "none"]

\* No device bound, no query asked; get_pool_manager not yet called.
DevIdle ==
  /\ assignments = {}
  /\ placeholders = {}
  /\ lastDevice = NoQuery

\* A thread that is not inside get_pool_manager.
Outside(at) == [holder |-> "none", at |-> at]

\* An agent that holds no manager yet.
NoManagers == [agent |-> None, logger |-> None]

SingletonIdle ==
  /\ managers = 0
  /\ manager_instance = None
  /\ gpc = [p \in Callers |-> Outside("idle")]
  /\ got = [p \in Callers |-> NoManagers]

\* The local variables conn of a client outside every operation: conn of
\* run_transaction or assign_room, and conn of check_room_conflicts.
NoHandles == [outer |-> None, inner |-> None]

\* The pool of db.py at rest: every handle in the pool, no work on any.
HandlesIdle ==
  /\ free = Handles
  /\ hpc = [c \in Clients |-> "idle"]
  /\ hconn = [c \in Clients |-> NoHandles]
  /\ work = [h \in Handles |-> "nobody"]
  /\ hres = [c \in Clients |-> "none"]

\* The bookings side at rest: an empty table, every session idle.
BookIdle ==
  /\ DevIdle
  /\ SingletonIdle
  /\ HandlesIdle
  /\ bookings = <<>>
  /\ cpc = [c \in Clients |-> "idle"]
  /\ job = [c \in Clients |-> NoJob]
  /\ res = [c \in Clients |-> "none"]
  /\ lastCheck = NoCheck

\* The guard at rest: every handle in the pool, no call in progress.
PoolIdle ==
  /\ inPool = Handles
  /\ txn = [h \in Handles |-> "idle"]
  /\ pc = [p \in Callers |-> "idle"]
  /\ conn = [p \in Callers |-> None]
  /\ retry_count = [p \in Callers |-> 0]
  /\ backoff_delay = [p \in Callers |-> BACKOFF_BASE]
  /\ thrown = [p \in Callers |-> FALSE]
  /\ exc = [p \in Callers |-> "none"]
  /\ result = [p \in Callers |-> "none"]
  /\ getconn_called = [p \in Callers |-> 0]
  /\ acquired = [p \in Callers |-> 0]
  /\ putconn_called = [p \in Callers |-> 0]
  /\ yielded = [p \in Callers |-> 0]
  /\ delta = [p \in Callers |-> 0]
  /\ sleeps = [p \in Callers |-> <<>>]

InitPool ==
  /\ BookIdle
  /\ connection_count \in InitialCounts
  /\ PoolIdle

\* Entering the finally clause with exception e pending: with a handle in
\* conn the release starts at conn.rollback(); with conn = None nothing is
\* released and the call ends.
EnterFinally(p, e, c) ==
  IF c # None
    THEN /\ pc' = [pc EXCEPT ![p] = "rollback"]
         /\ exc' = [exc EXCEPT ![p] = e]
         /\ result' = result
    ELSE /\ pc' = [pc EXCEPT ![p] = "done"]
         /\ exc' = [exc EXCEPT ![p] = e]
         /\ result' = [result EXCEPT ![p] = Outcome(e)]

\* The except psycopg2.pool.PoolError handler of the retry loop.
HandlePoolError(p) ==
  LET n == retry_count[p] + 1 IN
  /\ retry_count' = [retry_count EXCEPT ![p] = n]
  /\ IF ~RetriesLeft(n)
       THEN /\ EnterFinally(p, "AgentConnectionError", conn[p])
            /\ UNCHANGED <<sleeps, backoff_delay>>
       ELSE /\ sleeps' = [sleeps EXCEPT ![p] = Append(@, backoff_delay[p])]
            /\ backoff_delay' =
                 [backoff_delay EXCEPT ![p] = NextBackoff(backoff_delay[p])]
            /\ pc' = [pc EXCEPT ![p] = "getconn"]
            /\ UNCHANGED <<exc, result>>

\* The call: the saturation estimate is read under the lock and the breaker
\* decides; past it the locals are initialised.
Call(p) ==
  /\ pc[p] = "idle"
  /\ IF BreakerTrips(connection_count)
       THEN /\ pc' = [pc EXCEPT ![p] = "done"]
            /\ result' = [result EXCEPT ![p] = "PoolSaturationError"]
       ELSE /\ pc' = [pc EXCEPT ![p] = "getconn"]
            /\ result' = result
  /\ UNCHANGED <<connection_count, inPool, txn, conn, retry_count,
                 backoff_delay, thrown, exc, getconn_called, acquired,
                 putconn_called, yielded, delta, sleeps>>

\* The handle pool.getconn() hands out: handles are interchangeable, the
\* pool's choice among its idle ones is fixed (the lowest here).
HandedOut(pool) == CHOOSE h \in pool : \A g \in pool : h <= g

\* pool.getconn() returns handle h; the tagging statement SET
\* application_name opens a transaction on it and succeeds or raises.
GetConnOk(p, h, tag_ok) ==
  /\ pc[p] = "getconn"
  /\ RetriesLeft(retry_count[p])
  /\ inPool # {}
  /\ h = HandedOut(inPool)
  /\ inPool' = inPool \ {h}
  /\ conn' = [conn EXCEPT ![p] = h]
  /\ txn' = [txn EXCEPT ![h] = "open"]
  /\ getconn_called' = [getconn_called EXCEPT ![p] = @ + 1]
  /\ acquired' = [acquired EXCEPT ![p] = @ + 1]
  /\ IF tag_ok
       THEN /\ pc' = [pc EXCEPT ![p] = "increment"]
            /\ UNCHANGED <<exc, result>>
       ELSE EnterFinally(p, "Exception", h)
  /\ UNCHANGED <<connection_count, retry_count, backoff_delay, thrown,
                 putconn_called, yielded, delta, sleeps>>

\* pool.getconn() raises PoolError (the pool is shared with the UI tier and
\* may be exhausted whatever the modelled callers hold).
GetConnPoolError(p) ==
  /\ pc[p] = "getconn"
  /\ RetriesLeft(retry_count[p])
  /\ getconn_called' = [getconn_called EXCEPT ![p] = @ + 1]
  /\ HandlePoolError(p)
  /\ UNCHANGED <<connection_count, inPool, txn, conn, thrown, acquired,
                 putconn_called, yielded, delta>>

\* with self._lock: self._connection_count += 1, then yield conn. A yield
\* after the block has already exited by an exception is answered by
\* contextlib with RuntimeError and the generator is closed at the yield.
Increment(p) ==
  /\ pc[p] = "increment"
  /\ connection_count' = connection_count + 1
  /\ delta' = [delta EXCEPT ![p] = @ + 1]
  /\ IF thrown[p]
       THEN /\ EnterFinally(p, "RuntimeError", conn[p])
            /\ yielded' = yielded
       ELSE /\ pc' = [pc EXCEPT ![p] = "in_block"]
            /\ yielded' = [yielded EXCEPT ![p] = @ + 1]
            /\ UNCHANGED <<exc, result>>
  /\ UNCHANGED <<inPool, txn, conn, retry_count, backoff_delay, thrown,
                 getconn_called, acquired, putconn_called, sleeps>>

\* The caller's with-block ends: normally (break), by an exception that is
\* not a PoolError, or by a PoolError, which the retry loop's handler
\* catches. The block may have committed its work or left it open.
BlockExit(p, how, committed) ==
  /\ pc[p] = "in_block"
  /\ txn' = [txn EXCEPT ![conn[p]] = IF committed THEN "idle" ELSE @]
  /\ CASE how = "normal" ->
            /\ EnterFinally(p, "none", conn[p])
            /\ UNCHANGED <<thrown, retry_count, backoff_delay, sleeps>>
       [] how = "Exception" ->
            /\ thrown' = [thrown EXCEPT ![p] = TRUE]
            /\ EnterFinally(p, "Exception", conn[p])
            /\ UNCHANGED <<retry_count, backoff_delay, sleeps>>
       [] how = "PoolError" ->
            /\ thrown' = [thrown EXCEPT ![p] = TRUE]
            /\ HandlePoolError(p)
  /\ UNCHANGED <<connection_count, inPool, conn, getconn_called, acquired,
                 putconn_called, yielded, delta>>

\* finally: conn.rollback() on the handle in conn. (rollback and putconn on
\* a handle do not raise here, so the except clause that only logs is not
\* entered.)
Rollback(p) ==
  /\ pc[p] = "rollback"
  /\ txn' = [txn EXCEPT ![conn[p]] = RolledBack(@)]
  /\ pc' = [pc EXCEPT ![p] = "putconn"]
  /\ UNCHANGED <<connection_count, inPool, conn, retry_count, backoff_delay,
                 thrown, exc, result, getconn_called, acquired,
                 putconn_called, yielded, delta, sleeps>>

\* finally: pool.putconn(conn)
Putconn(p) ==
  /\ pc[p] = "putconn"
  /\ inPool' = inPool \cup {conn[p]}
  /\ putconn_called' = [putconn_called EXCEPT ![p] = @ + 1]
  /\ pc' = [pc EXCEPT ![p] = "decrement"]
  /\ UNCHANGED <<connection_count, txn, conn, retry_count, backoff_delay,
                 thrown, exc, result, getconn_called, acquired, yielded,
                 delta, sleeps>>

\* finally: self._connection_count = max(0, self._connection_count - 1)
Decrement(p) ==
  /\ pc[p] = "decrement"
  /\ connection_count' = Decremented(connection_count)
  /\ delta' = [delta EXCEPT ![p] = @ + (Decremented(connection_count)
                                          - connection_count)]
  /\ pc' = [pc EXCEPT ![p] = "done"]
  /\ result' = [result EXCEPT ![p] = Outcome(exc[p])]
  /\ UNCHANGED <<inPool, txn, conn, retry_count, backoff_delay, thrown, exc,
                 getconn_called, acquired, putconn_called, yielded, sleeps>>

NextPool ==
  /\ UNCHANGED <<devVars, singletonVars, handleVars>>
  /\ UNCHANGED bookVars
  /\ \E p \in Callers :
      \/ Call(p)
      \/ \E h \in Handles, tag_ok \in BOOLEAN : GetConnOk(p, h, tag_ok)
      \/ GetConnPoolError(p)
      \/ Increment(p)
      \/ \E how \in {"normal", "Exception", "PoolError"}, committed \in BOOLEAN :
           BlockExit(p, how, committed)
      \/ Rollback(p)
      \/ Putconn(p)
      \/ Decrement(p)

SpecPool == InitPool /\ [][NextPool]_vars

(***************************************************************************)
(* Claims about the connection guard, checked under SpecPool               *)
(***************************************************************************)

\* C1: every handle a call obtained from the pool (getconn) has been
\* returned to it (putconn) exactly once when the call has exited, on every
\* exit path: the putconn calls equal the successful getconn calls.
C1_EveryHandleReturnedOnce ==
  \A p \in Callers : pc[p] = "done" => putconn_called[p] = acquired[p]

\* C2: once a call's scope has exited, however it ended, the checked-out
\* count is back at its pre-call value: the call's net change is zero.
C2_CountBackAtPreCallValue ==
  \A p \in Callers : pc[p] = "done" => delta[p] = 0

\* C3: a call made while the estimated saturation (count + 8) / 20 exceeds
\* 0.9 raises PoolSaturationError at once: no getconn, no handle, and the
\* count unchanged.
C3_BreakerFailsFast ==
  [][\A p \in Callers :
       (pc[p] = "idle" /\ pc'[p] # "idle"
          /\ (connection_count + 8) * 10 > 9 * 20)
       => /\ pc'[p] = "done"
          /\ result'[p] = "PoolSaturationError"
          /\ getconn_called'[p] = 0
          /\ yielded'[p] = 0
          /\ conn'[p] = None
          /\ inPool' = inPool
          /\ connection_count' = connection_count]_vars

C3_Witness ==
  \E p, q \in Callers :
    /\ p # q
    /\ pc[q] = "in_block"
    /\ delta[q] = 1
    /\ connection_count = 11
    /\ pc[p] = "done"
    /\ result[p] = "PoolSaturationError"
    /\ getconn_called[p] = 0

\* C4: getconn is attempted at most MAX_RETRIES times; the sleeps between
\* attempts start at BACKOFF_BASE, double each time and never exceed
\* BACKOFF_MAX; and a call whose every getconn was rejected ends with
\* AgentConnectionError (not PoolSaturationError) after exactly MAX_RETRIES
\* attempts, without ever yielding a handle.
C4_RetriesThenConnectionError ==
  \A p \in Callers :
    /\ getconn_called[p] <= MAX_RETRIES
    /\ \A i \in DOMAIN sleeps[p] :
         /\ sleeps[p][i] <= BACKOFF_MAX
         /\ i = 1 => sleeps[p][i] = BACKOFF_BASE
         /\ i > 1 => \/ sleeps[p][i] = 2 * sleeps[p][i - 1]
                     \/ sleeps[p][i] = BACKOFF_MAX
    /\ acquired[p] = 0 => yielded[p] = 0 /\ conn[p] = None
    /\ (pc[p] = "done" /\ acquired[p] = 0 /\ getconn_called[p] > 0)
         => /\ result[p] = "AgentConnectionError"
            /\ getconn_called[p] = MAX_RETRIES
            /\ Len(sleeps[p]) = MAX_RETRIES - 1

C4_Witness ==
  \E p \in Callers :
    /\ pc[p] = "done"
    /\ result[p] = "AgentConnectionError"
    /\ acquired[p] = 0
    /\ getconn_called[p] = 3
    /\ sleeps[p] = <<5, 10>>

\* C5: a handle enters the pool only with its transaction already rolled
\* back, and a handle leaves the pool (the next checkout) with no open
\* transaction of a previous caller.
C5_RollbackBeforePutconn ==
  [][\A h \in Handles :
       /\ (h \notin inPool /\ h \in inPool')
            => (txn[h] = "idle" /\ txn'[h] = "idle")
       /\ (h \in inPool /\ h \notin inPool') => txn[h] = "idle"]_vars

C5_Witness ==
  \E p, q \in Callers :
    /\ p # q
    /\ putconn_called[p] = 1
    /\ yielded[p] = 1
    /\ pc[q] = "in_block"
    /\ conn[q] = conn[p]

(***************************************************************************)
(* PART II, continued: ranges, the conflict queries, the writers           *)
(***************************************************************************)

\* booking_period && tstzrange(lo, hi, '[)') on half-open ranges: an empty
\* range overlaps nothing.
Overlaps_Closed(lo1, hi1, lo2, hi2) ==
  lo1 < hi1 /\ lo2 < hi2 /\ lo1 <= hi2 /\ lo2 <= hi1
Overlaps(lo1, hi1, lo2, hi2) ==
  lo1 < hi1 /\ lo2 < hi2 /\ lo1 < hi2 /\ lo2 < hi1

\* tstzrange(lo, hi) raises when the lower bound is above the upper bound.
RangeError(lo, hi) == lo > hi

Row(room, lo, hi, status, tenant) ==
  [room |-> room, lo |-> lo, hi |-> hi, status |-> status, tenant |-> tenant]

\* AvailabilityService.check_room_conflicts: 07:30 of start_date to 16:30 of
\* end_date.
AvailRange(sd, ed) == <<At(sd, T0730), At(ed, T1630)>>

\* RoomApprovalService.check_room_conflicts: 00:00 of start_date to 23:59 of
\* end_date.
ApprovalRange(sd, ed) == <<At(sd, T0000), At(ed, T2359)>>

\* The WHERE clause of both conflict queries: rows of this room_id, in an
\* active status, whose period overlaps the range, other than exclude.
ConflictRows(rows, room, lo, hi, excl) ==
  {i \in DOMAIN rows :
     /\ rows[i].room = room
     /\ rows[i].status \in ActiveStatuses
     /\ Overlaps(rows[i].lo, rows[i].hi, lo, hi)
     /\ (excl # None => i # excl)}

\* The result of a conflict query; when the query raises, the except clause
\* answers has_conflict = True with no conflicts listed.
ConflictResult(rows, room, range, excl, failed) ==
  IF failed \/ RangeError(range[1], range[2])
  THEN [has_conflict |-> TRUE, conflicts |-> {}]
  ELSE LET cs == ConflictRows(rows, room, range[1], range[2], excl)
       IN  [has_conflict |-> cs # {}, conflicts |-> cs]

AvailabilityCheckRoomConflicts(rows, room, sd, ed, excl) ==
  ConflictResult(rows, room, AvailRange(sd, ed), excl, FALSE)

\* start_date = None (the lower bound of an empty period) makes
\* datetime.combine raise inside the try.
ApprovalCheckRoomConflicts(rows, room, sd, ed, excl) ==
  IF sd = None \/ ed = None
  THEN ConflictResult(rows, room, <<0, 0>>, excl, TRUE)
  ELSE ConflictResult(rows, room, ApprovalRange(sd, ed), excl, FALSE)

\* get_available_rooms: the rooms with no active booking overlapping
\* 07:30 of start_date to 16:30 of end_date; none when the query raises.
GetAvailableRooms(rows, sd, ed) ==
  LET range == AvailRange(sd, ed)
  IN  IF RangeError(range[1], range[2]) THEN {}
      ELSE {r \in Rooms :
              ConflictRows(rows, r, range[1], range[2], None) = {}}

\* The range-exclusion constraint of the bookings table: two rows of the
\* same room, both in a non-terminal status, with overlapping periods.
Excludes_ActiveOnly(a, b) ==
  /\ a.room # None
  /\ a.room = b.room
  /\ a.status \in ActiveStatuses
  /\ b.status \in ActiveStatuses
  /\ Overlaps(a.lo, a.hi, b.lo, b.hi)
Excludes(a, b) ==
  /\ a.room # None
  /\ a.room = b.room
  /\ a.status \notin Terminal
  /\ b.status \notin Terminal
  /\ Overlaps(a.lo, a.hi, b.lo, b.hi)

\* Writing row (the new version of row self, or a new row when self is
\* None) violates the constraint against a committed row.
ViolatesExclusion(rows, row, self) ==
  \E i \in DOMAIN rows : i # self /\ Excludes(rows[i], row)

HasPendingWrite(d) == job[d].kind \in {"insert", "update"}

\* The statement of client c waits: another session holds an uncommitted
\* write on the same row, or one whose old or new version the constraint
\* sets against row.
Waits(c, row, self) ==
  \E d \in Clients \ {c} :
     /\ HasPendingWrite(d)
     /\ \/ (self # None /\ job[d].id = self)
        \/ Excludes(job[d].row, row)
        \/ (job[d].kind = "update" /\ Excludes(bookings[job[d].id], row))

PendingInserts == Cardinality({d \in Clients : job[d].kind = "insert"})
RoomForInsert == Len(bookings) + PendingInserts < MaxBookings

\* run_transaction: an ExclusionViolation becomes the ValueError 'Double
\* Booking Prevented by Database Constraint.'; any other exception is
\* re-raised as it is.
RunTransactionRaises_Reraised(e) == e
RunTransactionRaises(e) ==
  IF e = "ExclusionViolation" THEN "DoubleBookingPrevented" ELSE e

\* An operation of client c ends with outcome r and nothing written.
Returns(c, r) ==
  /\ res' = [res EXCEPT ![c] = r]
  /\ cpc' = [cpc EXCEPT ![c] = "idle"]
  /\ job' = [job EXCEPT ![c] = NoJob]
  /\ UNCHANGED bookings

\* The statement of client c succeeded; its write waits for the commit.
Pending(c, at, kind, id, row) ==
  /\ cpc' = [cpc EXCEPT ![c] = at]
  /\ job' = [job EXCEPT ![c] = [kind |-> kind, id |-> id, row |-> row]]
  /\ res' = [res EXCEPT ![c] = "none"]
  /\ UNCHANGED bookings

\* The statement of client c raised error e: run_transaction is in its
\* except clause, the handle already released by the with statement.
Failed(c, at, row, e) ==
  /\ cpc' = [cpc EXCEPT ![c] = at]
  /\ job' = [job EXCEPT ![c] =
                [kind |-> "failed", id |-> None, row |-> row, error |-> e]]
  /\ res' = [res EXCEPT ![c] = "none"]
  /\ UNCHANGED bookings

\* db.create_booking up to the INSERT of run_transaction.
CreateBooking(c, room, start, end, tenant) ==
  /\ cpc[c] = "idle"
  /\ lastCheck' = NoCheck
  /\ LET row == Row(room, start, end, "Pending", tenant)
     IN  IF tenant \notin Tenants THEN Returns(c, "InvalidTenant")
         ELSE IF RangeError(start, end)
         THEN Failed(c, "cb_failed", row, "DataError")
         ELSE /\ ~Waits(c, row, None)
              /\ IF ViolatesExclusion(bookings, row, None)
                 THEN Failed(c, "cb_failed", row, "ExclusionViolation")
                 ELSE /\ RoomForInsert
                      /\ Pending(c, "cb_commit", "insert", None, row)

\* The except clauses of run_transaction: conn.rollback(), then raise.
CreateBookingRollback(c) ==
  /\ cpc[c] = "cb_failed"
  /\ lastCheck' = NoCheck
  /\ Returns(c, RunTransactionRaises(job[c].error))

\* conn.commit() of run_transaction, then the new id is returned.
CreateBookingCommit(c) ==
  /\ cpc[c] = "cb_commit"
  /\ bookings' = Append(bookings, job[c].row)
  /\ res' = [res EXCEPT ![c] = "ok"]
  /\ cpc' = [cpc EXCEPT ![c] = "idle"]
  /\ job' = [job EXCEPT ![c] = NoJob]
  /\ lastCheck' = NoCheck

\* BookingService.create_enhanced_booking up to its INSERT; any exception
\* is caught, rolled back and answered with success = False.
CreateEnhancedBooking(c, room, sd, ed, status) ==
  /\ cpc[c] = "idle"
  /\ lastCheck' = NoCheck
  /\ LET row == Row(room, At(sd, T0730), At(ed, T1630), status, None)
     IN  IF RangeError(row.lo, row.hi) THEN Returns(c, "failed")
         ELSE /\ ~Waits(c, row, None)
              /\ IF ViolatesExclusion(bookings, row, None)
                 THEN Returns(c, "failed")
                 ELSE RoomForInsert /\ Pending(c, "ce_commit", "insert", None, row)

CreateEnhancedBookingCommit(c) ==
  /\ cpc[c] = "ce_commit"
  /\ bookings' = Append(bookings, job[c].row)
  /\ res' = [res EXCEPT ![c] = "ok"]
  /\ cpc' = [cpc EXCEPT ![c] = "idle"]
  /\ job' = [job EXCEPT ![c] = NoJob]
  /\ lastCheck' = NoCheck

\* The dates assign_room reads from the booking: lower(booking_period)::date
\* and upper(booking_period)::date, NULL for an empty period.
StartDate(b) == IF b.lo = b.hi THEN None ELSE DateOf(b.lo)
EndDate(b) == IF b.lo = b.hi THEN None ELSE DateOf(b.hi)

\* RoomApprovalService.assign_room up to its conflict check.
AssignRoom(c, id, room, override_conflict) ==
  /\ cpc[c] = "idle"
  /\ lastCheck' = NoCheck
  /\ IF id \notin DOMAIN bookings THEN Returns(c, "failed")
     ELSE IF bookings[id].status # "Pending" THEN Returns(c, "failed")
     ELSE IF /\ ~override_conflict
             /\ ApprovalCheckRoomConflicts(bookings, room,
                  StartDate(bookings[id]), EndDate(bookings[id]),
                  id).has_conflict
     THEN Returns(c, "conflicts")
     ELSE /\ cpc' = [cpc EXCEPT ![c] = "ar_update"]
          /\ job' = [job EXCEPT ![c] =
                        [kind |-> "assign", id |-> id, room |-> room]]
          /\ res' = [res EXCEPT ![c] = "none"]
          /\ UNCHANGED bookings

\* The UPDATE of assign_room: WHERE id = booking_id, whatever the status is
\* by now.
AssignRoomUpdate(c) ==
  /\ cpc[c] = "ar_update"
  /\ lastCheck' = NoCheck
  /\ LET id == job[c].id
         row == [bookings[id] EXCEPT !.room = job[c].room,
                                     !.status = "Room Assigned"]
     IN  /\ ~Waits(c, row, id)
         /\ IF ViolatesExclusion(bookings, row, id)
            THEN Returns(c, "failed")
            ELSE Pending(c, "ar_commit", "update", id, row)

\* conn.commit() of assign_room, then the room name is read on the same
\* handle: when that SELECT raises or finds no row (lookup_ok = FALSE), the
\* except clause answers success = False, its rollback coming after the
\* commit.
AssignRoomCommit(c, lookup_ok) ==
  /\ cpc[c] = "ar_commit"
  /\ bookings' = [bookings EXCEPT ![job[c].id] = job[c].row]
  /\ res' = [res EXCEPT ![c] = IF lookup_ok THEN "ok" ELSE "failed"]
  /\ cpc' = [cpc EXCEPT ![c] = "idle"]
  /\ job' = [job EXCEPT ![c] = NoJob]
  /\ lastCheck' = NoCheck

\* RoomApprovalService.reject_booking up to its UPDATE ... WHERE id = %s AND
\* status = 'Pending'; rowcount 0 answers success = False.
RejectBooking(c, id) ==
  /\ cpc[c] = "idle"
  /\ lastCheck' = NoCheck
  /\ IF id \notin DOMAIN bookings THEN Returns(c, "failed")
     ELSE /\ ~Waits(c, [bookings[id] EXCEPT !.status = "Rejected"], id)
          /\ IF bookings[id].status # "Pending" THEN Returns(c, "failed")
             ELSE Pending(c, "rj_commit", "update", id,
                          [bookings[id] EXCEPT !.status = "Rejected"])

RejectBookingCommit(c) ==
  /\ cpc[c] = "rj_commit"
  /\ bookings' = [bookings EXCEPT ![job[c].id] = job[c].row]
  /\ res' = [res EXCEPT ![c] = "ok"]
  /\ cpc' = [cpc EXCEPT ![c] = "idle"]
  /\ job' = [job EXCEPT ![c] = NoJob]
  /\ lastCheck' = NoCheck

\* A conflict query by an idle client, recorded with its answer until the
\* client has read it.
Checked(impl, room, sd, ed, excl, answer, rooms) ==
  [impl |-> impl, room |-> room, sd |-> sd, ed |-> ed, excl |-> excl,
   has_conflict |-> answer.has_conflict, conflicts |-> answer.conflicts,
   rooms |-> rooms]

CheckRoomConflictsAvailability(c, room, sd, ed, excl) ==
  /\ cpc[c] = "idle"
  /\ lastCheck' = Checked("availability", room, sd, ed, excl,
       AvailabilityCheckRoomConflicts(bookings, room, sd, ed, excl), {})
  /\ cpc' = [cpc EXCEPT ![c] = "checked"]
  /\ res' = [res EXCEPT ![c] = "none"]
  /\ UNCHANGED <<bookings, job>>

CheckRoomConflictsApproval(c, room, sd, ed, excl) ==
  /\ cpc[c] = "idle"
  /\ lastCheck' = Checked("approval", room, sd, ed, excl,
       ApprovalCheckRoomConflicts(bookings, room, sd, ed, excl), {})
  /\ cpc' = [cpc EXCEPT ![c] = "checked"]
  /\ res' = [res EXCEPT ![c] = "none"]
  /\ UNCHANGED <<bookings, job>>

AvailableRooms(c, sd, ed) ==
  /\ cpc[c] = "idle"
  /\ lastCheck' = Checked("available_rooms", None, sd, ed, None,
       [has_conflict |-> FALSE, conflicts |-> {}],
       GetAvailableRooms(bookings, sd, ed))
  /\ cpc' = [cpc EXCEPT ![c] = "checked"]
  /\ res' = [res EXCEPT ![c] = "none"]
  /\ UNCHANGED <<bookings, job>>

\* The caller has read the answer of its query.
CheckReturns(c) ==
  /\ cpc[c] = "checked"
  /\ cpc' = [cpc EXCEPT ![c] = "idle"]
  /\ lastCheck' = NoCheck
  /\ UNCHANGED <<bookings, job, res>>

\* The dates the forms offer.
Days == {1, 2}

\* What booking_form passes to create_enhanced_booking: a selected room makes
\* the booking 'Confirmed', no room leaves it 'Pending'.
FormInputs ==
  {[room |-> r, status |-> "Confirmed"] : r \in Rooms}
    \cup {[room |-> None, status |-> "Pending"]}

BusinessHours == <<At(1, T0730), At(1, T1630)>>
Evening == <<At(1, T1630), At(1, T2359)>>
Night == <<At(1, T2359), At(2, T0730)>>
Inverted == <<At(1, T1630), At(1, T0730)>>
Instant == <<At(1, T0730), At(1, T0730)>>

InitBook ==
  /\ connection_count = 0
  /\ PoolIdle
  /\ BookIdle

\* Concurrent callers of db.create_booking: business hours of day 1, the
\* evening right after them, and an inverted period, for either tenant.
NextTxn ==
  /\ UNCHANGED <<devVars, singletonVars, handleVars>>
  /\ UNCHANGED poolVars
  /\ \E c \in Clients :
       \/ \E room \in Rooms, se \in {BusinessHours, Evening, Inverted},
             tenant \in Tenants \cup {"OTHER"} :
            CreateBooking(c, room, se[1], se[2], tenant)
       \/ CreateBookingCommit(c)
       \/ CreateBookingRollback(c)

SpecTxn == InitBook /\ [][NextTxn]_vars

\* The approval steps of the room manager.
Approvals(c) ==
  \/ \E id \in 1..MaxBookings, room \in Rooms, override \in BOOLEAN :
       AssignRoom(c, id, room, override)
  \/ AssignRoomUpdate(c)
  \/ AssignRoomCommit(c, TRUE)
  \/ \E id \in 1..MaxBookings : RejectBooking(c, id)
  \/ RejectBookingCommit(c)

\* Concurrent sessions creating bookings for day 1 and approving them.
NextBook ==
  /\ UNCHANGED <<devVars, singletonVars, handleVars>>
  /\ UNCHANGED poolVars
  /\ \E c \in Clients :
       \/ \E room \in Rooms :
            CreateBooking(c, room, BusinessHours[1], BusinessHours[2], "TECH")
       \/ CreateBookingCommit(c)
       \/ CreateBookingRollback(c)
       \/ \E in \in FormInputs :
            CreateEnhancedBooking(c, in.room, 1, 1, in.status)
       \/ CreateEnhancedBookingCommit(c)
       \/ Approvals(c)

SpecBook == InitBook /\ [][NextBook]_vars

\* The room manager alone: rooms booked through db.create_booking for the
\* evening or with the same start and end time, requests without a room
\* entered for day 1 through the form, and the approvals of them.
NextApprove ==
  /\ UNCHANGED <<devVars, singletonVars, handleVars>>
  /\ UNCHANGED poolVars
  /\ \/ \E se \in {Evening, Instant} :
          CreateBooking("admin", 1, se[1], se[2], "TECH")
     \/ CreateBookingCommit("admin")
     \/ CreateBookingRollback("admin")
     \/ CreateEnhancedBooking("admin", None, 1, 1, "Pending")
     \/ CreateEnhancedBookingCommit("admin")
     \/ Approvals("admin")
     \/ AssignRoomCommit("admin", FALSE)

SpecApprove == InitBook /\ [][NextApprove]_vars

\* One session that writes the table and asks the conflict queries: night
\* bookings through db.create_booking, bookings from day 1 on through the
\* form.
NextQuery ==
  /\ UNCHANGED <<devVars, singletonVars, handleVars>>
  /\ UNCHANGED poolVars
  /\ \E c \in {"admin"} :
       \/ \E room \in Rooms :
            CreateBooking(c, room, Night[1], Night[2], "TECH")
       \/ CreateBookingCommit(c)
       \/ CreateBookingRollback(c)
       \/ \E in \in FormInputs, ed \in Days :
            CreateEnhancedBooking(c, in.room, 1, ed, in.status)
       \/ CreateEnhancedBookingCommit(c)
       \/ Approvals(c)
       \/ \E room \in Rooms, sd \in Days, ed \in Days, excl \in 0..Len(bookings) :
            \/ CheckRoomConflictsAvailability(c, room, sd, ed, excl)
            \/ CheckRoomConflictsApproval(c, room, sd, ed, excl)
       \/ \E sd \in Days, ed \in Days : AvailableRooms(c, sd, ed)
       \/ CheckReturns(c)

SpecQuery == InitBook /\ [][NextQuery]_vars

(***************************************************************************)
(* PART III -- device assignments (src/src/models/device_manager.py,       *)
(* AvailabilityService.check_device_availability)                          *)
(***************************************************************************)

\* DeviceManager builds its range from datetime.min.time() at both ends:
\* 00:00 of start_date to 00:00 of end_date.
DeviceRange(sd, ed) == <<At(sd, T0000), At(ed, T0000)>>

\* b.status NOT IN ('cancelled', 'completed') of the DeviceManager queries.
DeviceExcludedStatuses == {"cancelled", "completed"}

\* d.status IN ('available', 'rented') of get_available_devices.
InServiceStatuses == {"available", "rented"}

\* The bookings a device is bound to that a DeviceManager query holds
\* against the range: not the excluded booking, status not in the excluded
\* list, period overlapping.
BlockingBookings(rows, asg, d, lo, hi, excl) ==
  {b \in DOMAIN rows :
     /\ <<d, b>> \in asg
     /\ b # excl
     /\ rows[b].status \notin DeviceExcludedStatuses
     /\ Overlaps(rows[b].lo, rows[b].hi, lo, hi)}

\* get_device_conflicts: the blocking bookings that have a room (JOIN rooms);
\* no row when device_id is missing or the query raises.
GetDeviceConflicts(rows, asg, d, sd, ed, excl) ==
  LET range == DeviceRange(sd, ed)
  IN  IF d = None \/ RangeError(range[1], range[2]) THEN {}
      ELSE {b \in BlockingBookings(rows, asg, d, range[1], range[2], excl) :
              rows[b].room # None}

\* get_available_devices: the devices in service that no blocking booking
\* holds; none when start_date is after end_date.
GetAvailableDevices(rows, asg, sd, ed, excl) ==
  LET range == DeviceRange(sd, ed)
  IN  IF sd > ed THEN {}
      ELSE {d \in Devices :
              /\ DeviceStatus(d) \in InServiceStatuses
              /\ BlockingBookings(rows, asg, d, range[1], range[2], excl) = {}}

\* check_device_availability: counts the devices with status 'available'
\* not bound to a booking with b.status = 'confirmed' that overlaps 07:30 of
\* start_date to 16:30 of end_date; on an exception the count is 0.
CountAvailableDevices(rows, asg, sd, ed) ==
  LET range == AvailRange(sd, ed)
  IN  IF RangeError(range[1], range[2]) THEN 0
      ELSE Cardinality(
             {d \in Devices :
                /\ DeviceStatus(d) = "available"
                /\ ~\E b \in DOMAIN rows :
                      /\ <<d, b>> \in asg
                      /\ rows[b].status = "confirmed"
                      /\ Overlaps(rows[b].lo, rows[b].hi, range[1], range[2])})

DevAnswer(query, device, sd, ed, excl, n, found, count, flag) ==
  [query |-> query, device |-> device, sd |-> sd, ed |-> ed, excl |-> excl,
   n |-> n, found |-> found, count |-> count, flag |-> flag]

\* A device query by an idle client, recorded with its answer until the
\* client has read it.
Asks(c, answer) ==
  /\ cpc[c] = "idle"
  /\ lastDevice' = answer
  /\ cpc' = [cpc EXCEPT ![c] = "asked"]
  /\ res' = [res EXCEPT ![c] = "none"]
  /\ UNCHANGED <<bookings, job, lastCheck, assignments, placeholders>>

DeviceConflicts(c, d, sd, ed, excl) ==
  Asks(c, DevAnswer("device_conflicts", d, sd, ed, excl, 0,
         GetDeviceConflicts(bookings, assignments, d, sd, ed, excl), 0, FALSE))

AvailableDevices(c, sd, ed, excl) ==
  Asks(c, DevAnswer("available_devices", None, sd, ed, excl, 0,
         GetAvailableDevices(bookings, assignments, sd, ed, excl), 0, FALSE))

CheckDeviceAvailability(c, devices_needed, sd, ed) ==
  LET count == CountAvailableDevices(bookings, assignments, sd, ed)
  IN  Asks(c, DevAnswer("device_availability", None, sd, ed, None,
             devices_needed, {}, count,
             ~RangeError(AvailRange(sd, ed)[1], AvailRange(sd, ed)[2])
               /\ count >= devices_needed))

\* check_stock_levels: get_available_devices(category, date, date), counted
\* against the threshold.
CheckStockLevels(c, future_date, min_threshold) ==
  LET count == Cardinality(GetAvailableDevices(bookings, assignments,
                                               future_date, future_date, None))
  IN  Asks(c, DevAnswer("stock_levels", None, future_date, future_date, None,
             min_threshold, {}, count, count < min_threshold))

\* can_reallocate_device: the rows of WHERE id IN (from, to) are counted,
\* then the source booking is classified against today. A NULL date makes
\* the comparison raise, which is answered can_reallocate = False.
CanReallocateDevice(rows, from, to, today) ==
  IF Cardinality({from, to} \cap DOMAIN rows) # 2
  THEN [can_reallocate |-> FALSE, reason |-> "not found"]
  ELSE IF StartDate(rows[from]) = None
  THEN [can_reallocate |-> FALSE, reason |-> "error"]
  ELSE IF EndDate(rows[from]) < today
  THEN [can_reallocate |-> TRUE, reason |-> "completed"]
  ELSE IF StartDate(rows[from]) <= today
  THEN [can_reallocate |-> TRUE, reason |-> "in progress"]
  ELSE [can_reallocate |-> TRUE, reason |-> "not started"]

\* The days date.today() may be: before, on and after the days booked.
Todays == 0..3

CanReallocate(c, from, to, today) ==
  Asks(c, [query |-> "can_reallocate", from |-> from, to |-> to,
           today |-> today,
           answer |-> CanReallocateDevice(bookings, from, to, today)])

DeviceQueryReturns(c) ==
  /\ cpc[c] = "asked"
  /\ cpc' = [cpc EXCEPT ![c] = "idle"]
  /\ lastDevice' = NoQuery
  /\ UNCHANGED <<bookings, job, res, lastCheck, assignments, placeholders>>

\* create_device_only_booking: one transaction that stores a 'Pending'
\* booking on the placeholder room 1 and a category-level assignment row.
CreateDeviceOnlyBooking(c, sd, ed) ==
  /\ cpc[c] = "idle"
  /\ lastCheck' = NoCheck
  /\ lastDevice' = NoQuery
  /\ UNCHANGED <<cpc, job, assignments>>
  /\ LET row == Row(1, At(sd, T0730), At(ed, T1630), "Pending", None)
     IN  IF RangeError(row.lo, row.hi) \/ ViolatesExclusion(bookings, row, None)
         THEN /\ res' = [res EXCEPT ![c] = "failed"]
              /\ UNCHANGED <<bookings, placeholders>>
         ELSE /\ Len(bookings) < MaxBookings
              /\ bookings' = Append(bookings, row)
              /\ placeholders' = placeholders \cup {Len(bookings) + 1}
              /\ res' = [res EXCEPT ![c] = "ok"]

\* A DeviceManager operation of client c ends with outcome r.
DeviceReturns(c, r) ==
  /\ res' = [res EXCEPT ![c] = r]
  /\ cpc' = [cpc EXCEPT ![c] = "idle"]
  /\ job' = [job EXCEPT ![c] = NoJob]

\* A DeviceManager operation of client c goes on to its INSERT; bound notes
\* whether the device was bound to the source booking when it was called.
DeviceGoesOn(c, at, d, from, to) ==
  /\ cpc' = [cpc EXCEPT ![c] = at]
  /\ job' = [job EXCEPT ![c] =
                [kind |-> "device", device |-> d, from |-> from, to |-> to,
                 bound |-> <<d, from>> \in assignments]]
  /\ res' = [res EXCEPT ![c] = "none"]

\* assign_device up to its first run_transaction: the DELETE of the
\* booking's category-level rows, committed on its own. ok = FALSE: the
\* statement raises (no connection, constraint) and the except clause
\* answers success = False.
AssignDevice(c, d, b, ok) ==
  /\ cpc[c] = "idle"
  /\ b \in DOMAIN bookings
  /\ lastDevice' = NoQuery
  /\ UNCHANGED <<bookings, lastCheck, assignments>>
  /\ IF ok
     THEN /\ placeholders' = placeholders \ {b}
          /\ DeviceGoesOn(c, "ad_insert", d, None, b)
     ELSE /\ UNCHANGED placeholders
          /\ DeviceReturns(c, "failed")

\* The INSERT of assign_device, a second transaction.
AssignDeviceInsert(c, ok) ==
  /\ cpc[c] = "ad_insert"
  /\ lastDevice' = NoQuery
  /\ UNCHANGED <<bookings, lastCheck, placeholders>>
  /\ assignments' = IF ok THEN assignments \cup {<<job[c].device, job[c].to>>}
                    ELSE assignments
  /\ DeviceReturns(c, IF ok THEN "ok" ELSE "failed")

\* reallocate_device up to its first run_transaction: DELETE ... WHERE
\* device_id = %s AND booking_id = %s, committed on its own.
ReallocateDevice(c, d, from, to, ok) ==
  /\ cpc[c] = "idle"
  /\ from \in DOMAIN bookings /\ to \in DOMAIN bookings
  /\ lastDevice' = NoQuery
  /\ UNCHANGED <<bookings, lastCheck, placeholders>>
  /\ IF ok
     THEN /\ assignments' = assignments \ {<<d, from>>}
          /\ DeviceGoesOn(c, "rd_insert", d, from, to)
     ELSE /\ UNCHANGED assignments
          /\ DeviceReturns(c, "failed")

\* The INSERT of reallocate_device into the target booking, a second
\* transaction; when it raises, the except clause answers success = False.
ReallocateDeviceInsert(c, ok) ==
  /\ cpc[c] = "rd_insert"
  /\ lastDevice' = NoQuery
  /\ UNCHANGED <<bookings, lastCheck, placeholders>>
  /\ assignments' = IF ok THEN assignments \cup {<<job[c].device, job[c].to>>}
                    ELSE assignments
  /\ DeviceReturns(c, IF ok THEN "reallocated" ELSE "reallocate_failed")

\* The devices the staff hand out.
HandedDevices == {1, 2}

\* One session that creates bookings, rejects them, binds and moves devices
\* and asks the device queries.
NextDevice ==
  /\ UNCHANGED <<poolVars, singletonVars, handleVars>>
  /\ \E c \in {"admin"} :
       \/ /\ UNCHANGED devVars
          /\ \/ \E in \in {f \in FormInputs : f.room \in {2, None}},
                   sd \in Days, ed \in Days :
                  CreateEnhancedBooking(c, in.room, sd, ed, in.status)
             \/ CreateEnhancedBookingCommit(c)
             \/ \E id \in 1..MaxBookings : RejectBooking(c, id)
             \/ RejectBookingCommit(c)
       \/ \E sd \in Days, ed \in Days : CreateDeviceOnlyBooking(c, sd, ed)
       \/ \E d \in HandedDevices, b \in 1..MaxBookings, ok \in BOOLEAN :
            AssignDevice(c, d, b, ok)
       \/ \E ok \in BOOLEAN : AssignDeviceInsert(c, ok)
       \/ \E d \in HandedDevices, from \in 1..MaxBookings,
             to \in 1..MaxBookings, ok \in BOOLEAN :
            ReallocateDevice(c, d, from, to, ok)
       \/ \E ok \in BOOLEAN : ReallocateDeviceInsert(c, ok)
       \/ \E d \in HandedDevices, sd \in Days, ed \in Days,
             excl \in 0..Len(bookings) :
            DeviceConflicts(c, d, sd, ed, excl)
       \/ \E sd \in Days, ed \in Days, excl \in 0..Len(bookings) :
            AvailableDevices(c, sd, ed, excl)
       \/ \E n \in 1..2, sd \in Days, ed \in Days :
            CheckDeviceAvailability(c, n, sd, ed)
       \/ \E n \in 1..3, date \in Days : CheckStockLevels(c, date, n)
       \/ \E from \in 1..MaxBookings, to \in 1..MaxBookings, today \in Todays :
            CanReallocate(c, from, to, today)
       \/ DeviceQueryReturns(c)

SpecDevice == InitBook /\ [][NextDevice]_vars

(***************************************************************************)
(* Part IV: the module-level AgentPoolManager of pool_manager.py           *)
(***************************************************************************)

\* The test of get_pool_manager, if _manager_instance is None, made for the
\* holder (the agent or its logger): the caller goes on to create a manager
\* or to return the one it saw.
GetPoolManagerTest(p, holder) ==
  gpc' = [gpc EXCEPT ![p] =
            [holder |-> holder,
             at |-> IF manager_instance = None THEN "create" ELSE "return"]]

\* BaseAgent.__init__ of a new agent calls get_pool_manager.
BaseAgentInit(p) ==
  /\ gpc[p] = Outside("idle")
  /\ GetPoolManagerTest(p, "agent")
  /\ UNCHANGED <<managers, manager_instance, got>>

\* AgentPoolManager(): the right-hand side of the assignment constructs a new
\* manager, with its own connection counter and lock.
GetPoolManagerCreate(p) ==
  /\ gpc[p].at = "create"
  /\ managers' = managers + 1
  /\ gpc' = [gpc EXCEPT ![p] =
                [holder |-> gpc[p].holder, at |-> "assign",
                 made |-> managers + 1]]
  /\ UNCHANGED <<manager_instance, got>>

\* _manager_instance = ...: the new manager becomes the module global.
GetPoolManagerAssign(p) ==
  /\ gpc[p].at = "assign"
  /\ manager_instance' = gpc[p].made
  /\ gpc' = [gpc EXCEPT ![p] = [holder |-> gpc[p].holder, at |-> "return"]]
  /\ UNCHANGED <<managers, got>>

\* return _manager_instance, stored as self._pool_manager of the agent, which
\* then creates its logger.
GetPoolManagerReturnsToAgent(p) ==
  /\ gpc[p] = [holder |-> "agent", at |-> "return"]
  /\ got' = [got EXCEPT ![p].agent = manager_instance]
  /\ gpc' = [gpc EXCEPT ![p] = Outside("create_logger")]
  /\ UNCHANGED <<managers, manager_instance>>

\* create_logger: AuditLogger.__init__ calls get_pool_manager.
AuditLoggerInit(p) ==
  /\ gpc[p] = Outside("create_logger")
  /\ GetPoolManagerTest(p, "logger")
  /\ UNCHANGED <<managers, manager_instance, got>>

\* return _manager_instance, stored as self._pool_manager of the logger; the
\* agent is constructed.
GetPoolManagerReturnsToLogger(p) ==
  /\ gpc[p] = [holder |-> "logger", at |-> "return"]
  /\ got' = [got EXCEPT ![p].logger = manager_instance]
  /\ gpc' = [gpc EXCEPT ![p] = Outside("idle")]
  /\ UNCHANGED <<managers, manager_instance>>

\* Agents constructed in concurrent threads of one process.
NextSingleton ==
  /\ UNCHANGED <<poolVars, bookVars, devVars, handleVars>>
  /\ \E p \in Callers :
       \/ BaseAgentInit(p)
       \/ GetPoolManagerCreate(p)
       \/ GetPoolManagerAssign(p)
       \/ GetPoolManagerReturnsToAgent(p)
       \/ AuditLoggerInit(p)
       \/ GetPoolManagerReturnsToLogger(p)

SpecSingleton == InitBook /\ [][NextSingleton]_vars

(***************************************************************************)
(* Part V: the handles of the pool of db.py, as run_transaction and        *)
(* assign_room check them out and return them                              *)
(***************************************************************************)

\* The handles checked out of the pool.
Out == Handles \ free

\* An operation of client c on the pool ends with outcome r.
HandleReturns(c, r) ==
  /\ hres' = [hres EXCEPT ![c] = r]
  /\ hpc' = [hpc EXCEPT ![c] = "idle"]
  /\ hconn' = [hconn EXCEPT ![c] = NoHandles]

\* run_transaction enters with get_db_connection() as conn: getconn hands
\* out a handle, or raises PoolError with conn still None, which the last
\* except clause re-raises.
RunTransaction(c) ==
  /\ hpc[c] = "idle"
  /\ IF free = {}
     THEN /\ HandleReturns(c, "error")
          /\ UNCHANGED <<free, work>>
     ELSE /\ free' = free \ {HandedOut(free)}
          /\ hconn' = [hconn EXCEPT ![c].outer = HandedOut(free)]
          /\ hpc' = [hpc EXCEPT ![c] = "rt_execute"]
          /\ hres' = [hres EXCEPT ![c] = "none"]
          /\ UNCHANGED work

\* cur.execute(query, params): the statement succeeds and its work is on the
\* handle, or it raises e and the with-block is left.
RunTransactionExecute(c, e) ==
  /\ hpc[c] = "rt_execute"
  /\ IF e = "none"
     THEN /\ work' = [work EXCEPT ![hconn[c].outer] = c]
          /\ hpc' = [hpc EXCEPT ![c] = "rt_commit"]
          /\ hres' = hres
     ELSE /\ work' = work
          /\ hpc' = [hpc EXCEPT ![c] = "rt_putconn"]
          /\ hres' = [hres EXCEPT ![c] = e]
  /\ UNCHANGED <<free, hconn>>

\* conn.commit(), then return inside the with-block: the finally clause of
\* get_db_connection returns the handle.
RunTransactionCommit(c) ==
  /\ hpc[c] = "rt_commit"
  /\ work' = [work EXCEPT ![hconn[c].outer] = "nobody"]
  /\ free' = free \cup {hconn[c].outer}
  /\ HandleReturns(c, "ok")

\* The with-block is left by the exception: the finally clause of
\* get_db_connection calls putconn before any except clause of
\* run_transaction runs.
RunTransactionPutconn(c) ==
  /\ hpc[c] = "rt_putconn"
  /\ free' = free \cup {hconn[c].outer}
  /\ hpc' = [hpc EXCEPT ![c] = "rt_rollback"]
  /\ UNCHANGED <<hconn, work, hres>>

\* What run_transaction raises for the exception of the statement.
RunTransactionError(e) ==
  IF e = "ExclusionViolation" THEN "DoubleBooking" ELSE "error"

\* The except clause: conn.rollback() on the handle in conn, then the raise.
RunTransactionRollback(c) ==
  /\ hpc[c] = "rt_rollback"
  /\ work' = [work EXCEPT ![hconn[c].outer] = "nobody"]
  /\ free' = free
  /\ HandleReturns(c, RunTransactionError(hres[c]))

\* assign_room: conn = self.connection_pool.getconn(); a PoolError is caught
\* by its except clause with conn still None. The booking is read.
AssignRoomGetconn(c, override_conflict) ==
  /\ hpc[c] = "idle"
  /\ IF free = {}
     THEN /\ HandleReturns(c, "error")
          /\ UNCHANGED <<free, work>>
     ELSE /\ free' = free \ {HandedOut(free)}
          /\ hconn' = [hconn EXCEPT ![c].outer = HandedOut(free)]
          /\ hpc' = [hpc EXCEPT ![c] =
                       IF override_conflict THEN "ar_write" ELSE "ar_check"]
          /\ hres' = [hres EXCEPT ![c] = "none"]
          /\ UNCHANGED work

\* check_room_conflicts called by assign_room: its own getconn. A PoolError
\* is caught inside and answered has_conflict = True, which assign_room
\* returns as a conflict after its finally clause returned the handle.
CheckRoomConflictsGetconn(c) ==
  /\ hpc[c] = "ar_check"
  /\ IF free = {}
     THEN /\ free' = free \cup {hconn[c].outer}
          /\ HandleReturns(c, "conflicts")
          /\ UNCHANGED work
     ELSE /\ free' = free \ {HandedOut(free)}
          /\ hconn' = [hconn EXCEPT ![c].inner = HandedOut(free)]
          /\ hpc' = [hpc EXCEPT ![c] = "ar_checking"]
          /\ UNCHANGED <<work, hres>>

\* check_room_conflicts returns: putconn in its finally clause. has_conflict
\* makes assign_room return the conflicts and its handle.
CheckRoomConflictsPutconn(c, has_conflict) ==
  /\ hpc[c] = "ar_checking"
  /\ UNCHANGED work
  /\ IF has_conflict
     THEN /\ free' = free \cup {hconn[c].inner, hconn[c].outer}
          /\ HandleReturns(c, "conflicts")
     ELSE /\ free' = free \cup {hconn[c].inner}
          /\ hconn' = [hconn EXCEPT ![c].inner = None]
          /\ hpc' = [hpc EXCEPT ![c] = "ar_write"]
          /\ hres' = hres

\* The UPDATE of assign_room; when it raises, the except clause rolls back
\* and the finally clause returns the handle.
AssignRoomWrite(c, ok) ==
  /\ hpc[c] = "ar_write"
  /\ IF ok
     THEN /\ work' = [work EXCEPT ![hconn[c].outer] = c]
          /\ hpc' = [hpc EXCEPT ![c] = "ar_commit"]
          /\ UNCHANGED <<free, hconn, hres>>
     ELSE /\ work' = work
          /\ free' = free \cup {hconn[c].outer}
          /\ HandleReturns(c, "error")

\* conn.commit(), the result, and putconn in the finally clause.
AssignRoomReturns(c) ==
  /\ hpc[c] = "ar_commit"
  /\ work' = [work EXCEPT ![hconn[c].outer] = "nobody"]
  /\ free' = free \cup {hconn[c].outer}
  /\ HandleReturns(c, "ok")

\* The exceptions a statement of run_transaction raises.
StatementErrors == {"ExclusionViolation", "Exception"}

\* Concurrent sessions writing through run_transaction and assigning rooms,
\* on a pool with as many handles as it is given.
NextHandles ==
  /\ UNCHANGED <<poolVars, bookVars, devVars, singletonVars>>
  /\ \E c \in Clients :
       \/ RunTransaction(c)
       \/ \E e \in {"none"} \cup StatementErrors : RunTransactionExecute(c, e)
       \/ RunTransactionCommit(c)
       \/ RunTransactionPutconn(c)
       \/ RunTransactionRollback(c)
       \/ \E override \in BOOLEAN : AssignRoomGetconn(c, override)
       \/ CheckRoomConflictsGetconn(c)
       \/ \E has_conflict \in BOOLEAN : CheckRoomConflictsPutconn(c, has_conflict)
       \/ \E ok \in BOOLEAN : AssignRoomWrite(c, ok)
       \/ AssignRoomReturns(c)

SpecHandles == InitBook /\ [][NextHandles]_vars

(***************************************************************************)
(* Claims about the bookings table and the conflict queries                *)
(***************************************************************************)

NonTerminal(b) == b.status \notin Terminal

\* The instants of the two days of the model.
Instants == 0..At(2, T2359)

\* Two half-open ranges share some positive duration: an instant t with
\* [t, t+1) inside both.
SharePositiveDuration(lo1, hi1, lo2, hi2) ==
  \E t \in Instants : lo1 <= t /\ t < hi1 /\ lo2 <= t /\ t < hi2

\* The range the recorded conflict query asked about.
CheckedRange ==
  IF lastCheck.impl = "approval"
  THEN ApprovalRange(lastCheck.sd, lastCheck.ed)
  ELSE AvailRange(lastCheck.sd, lastCheck.ed)

\* A check_room_conflicts answer is recorded, for a well-formed range.
ConflictCheckAnswered ==
  /\ lastCheck.impl \in {"availability", "approval"}
  /\ lastCheck.sd <= lastCheck.ed

\* C6: after any interleaving of db.create_booking, create_enhanced_booking
\* and assign_room, no two stored bookings that are both non-terminal and on
\* the same room or on mutually combinable rooms have intersecting periods.
C6_NoDoubleBooking ==
  \A i \in DOMAIN bookings, j \in DOMAIN bookings :
     ( /\ i < j
       /\ NonTerminal(bookings[i]) /\ NonTerminal(bookings[j])
       /\ bookings[i].room # None
       /\ \/ bookings[i].room = bookings[j].room
          \/ Combinable(bookings[i].room, bookings[j].room) )
     => ~SharePositiveDuration(bookings[i].lo, bookings[i].hi,
                               bookings[j].lo, bookings[j].hi)

C8_SlidingDoors ==
  ConflictCheckAnswered =>
    \A i \in DOMAIN bookings :
       ( /\ Combinable(bookings[i].room, lastCheck.room)
         /\ bookings[i].status \in ActiveStatuses
         /\ i # lastCheck.excl
         /\ SharePositiveDuration(bookings[i].lo, bookings[i].hi,
                                  CheckedRange[1], CheckedRange[2]) )
       => (i \in lastCheck.conflicts /\ lastCheck.has_conflict)

C10_TerminalExcludedOthersListed ==
  /\ ConflictCheckAnswered =>
       /\ \A i \in lastCheck.conflicts : NonTerminal(bookings[i])
       /\ \A i \in DOMAIN bookings :
            ( /\ bookings[i].room = lastCheck.room
              /\ NonTerminal(bookings[i])
              /\ i # lastCheck.excl
              /\ SharePositiveDuration(bookings[i].lo, bookings[i].hi,
                                       CheckedRange[1], CheckedRange[2]) )
            => i \in lastCheck.conflicts
  /\ (lastCheck.impl = "available_rooms" /\ lastCheck.sd <= lastCheck.ed) =>
       \A r \in Rooms \ lastCheck.rooms :
          \E i \in DOMAIN bookings :
             /\ bookings[i].room = r
             /\ NonTerminal(bookings[i])
             /\ SharePositiveDuration(bookings[i].lo, bookings[i].hi,
                                      CheckedRange[1], CheckedRange[2])

\* A stored active booking of the room shares a positive duration with row.
ActiveConflict(row) ==
  \E i \in DOMAIN bookings :
     /\ bookings[i].room = row.room
     /\ bookings[i].status \in ActiveStatuses
     /\ SharePositiveDuration(bookings[i].lo, bookings[i].hi, row.lo, row.hi)

C13_InitialStatusFollowsRoom ==
  [][\A c \in Clients :
       (cpc[c] \in {"cb_commit", "ce_commit"} /\ cpc'[c] = "idle") =>
         LET row == bookings'[Len(bookings')]
         IN  /\ Len(bookings') = Len(bookings) + 1
             /\ (row.room # None) <=> (row.status \in ActiveStatuses)
             /\ (row.room = None) => (row.status = "Pending")
    ]_vars

\* An active booking other than id holds the room during a part of the
\* period of booking id.
RoomTaken(id, room) ==
  \E j \in DOMAIN bookings :
    /\ j # id
    /\ bookings[j].room = room
    /\ bookings[j].status \in ActiveStatuses
    /\ SharePositiveDuration(bookings[j].lo, bookings[j].hi,
                             bookings[id].lo, bookings[id].hi)

\* C14: assign_room goes on to its UPDATE only for a Pending booking, and the
\* commit binds the room with status 'Room Assigned'; it answers with
\* conflicts only when an active booking conflicts with a Pending one on some
\* room, and then changes nothing; its UPDATE is refused only for a room an
\* active booking holds during the period; a failed call changes nothing.
C14_AssignRoomContract ==
  [][\A c \in Clients :
       /\ (cpc[c] = "idle" /\ cpc'[c] = "ar_update") =>
            /\ bookings[job'[c].id].status = "Pending"
            /\ bookings' = bookings
       /\ (cpc[c] = "ar_commit" /\ cpc'[c] = "idle") =>
            /\ bookings[job[c].id].status = "Pending"
            /\ bookings'[job[c].id].room = job[c].row.room
            /\ bookings'[job[c].id].status = "Room Assigned"
            /\ \A j \in DOMAIN bookings :
                 j # job[c].id => bookings'[j] = bookings[j]
       /\ (cpc[c] = "idle" /\ cpc'[c] = "idle" /\ res'[c] = "conflicts") =>
            /\ bookings' = bookings
            /\ \E id \in DOMAIN bookings, room \in Rooms :
                 bookings[id].status = "Pending" /\ RoomTaken(id, room)
       /\ (cpc[c] = "ar_update" /\ cpc'[c] = "idle") =>
            /\ bookings' = bookings
            /\ RoomTaken(job[c].id, job[c].room)
    ]_vars

\* C15: terminal states are absorbing and rows are never deleted: no step
\* changes the status or the room of a booking that is 'Rejected' or
\* 'Cancelled', whatever the interleaving of assign_room and reject_booking.
C15_TerminalAbsorbing ==
  [][/\ Len(bookings') >= Len(bookings)
     /\ \A i \in DOMAIN bookings :
          bookings[i].status \in Terminal =>
            /\ bookings'[i].status = bookings[i].status
            /\ bookings'[i].room = bookings[i].room
    ]_vars

(***************************************************************************)
(* Claims about device assignments, checked under SpecDevice               *)
(***************************************************************************)

\* The date ranges of bookings x and y have no day in common.
DisjointDates(x, y) ==
  \/ DateOf(bookings[x].hi) < DateOf(bookings[y].lo)
  \/ DateOf(bookings[y].hi) < DateOf(bookings[x].lo)

\* C16: when reallocate_device(D, X, Y) succeeds for a device that
\* assign_device had bound to X, and the date ranges of X and Y are disjoint,
\* get_device_conflicts(D, X's dates) has no row and
\* get_device_conflicts(D, Y's dates) lists the binding to Y.
C16_ConflictsFollowReallocation ==
  [][\A c \in Clients :
       (/\ cpc[c] = "rd_insert" /\ res'[c] = "reallocated"
        /\ job[c].bound
        /\ DisjointDates(job[c].from, job[c].to)) =>
         LET D == job[c].device
             X == bookings[job[c].from]
             Y == bookings[job[c].to]
         IN  /\ GetDeviceConflicts(bookings', assignments', D,
                  DateOf(X.lo), DateOf(X.hi), None) = {}
             /\ job[c].to \in GetDeviceConflicts(bookings', assignments', D,
                  DateOf(Y.lo), DateOf(Y.hi), None)
    ]_vars

\* C11: reallocation atomicity. When reallocate_device returns, with
\* success or with an error result, for a device that was bound to the
\* source booking, the device is bound to the source or to the target
\* booking, and not to both.
C11_ReallocationAtomic ==
  [][\A c \in Clients :
       (cpc[c] = "rd_insert" /\ cpc'[c] = "idle" /\ job[c].bound) =>
         LET atSource == <<job[c].device, job[c].from>> \in assignments'
             atTarget == <<job[c].device, job[c].to>> \in assignments'
         IN  /\ atSource \/ atTarget
             /\ job[c].from # job[c].to => ~(atSource /\ atTarget)
    ]_vars

\* C17: a binding to a 'Rejected' or 'Cancelled' booking never appears in the
\* answer of get_device_conflicts and never removes a device from the answer
\* of get_available_devices.
C17_TerminalBindingsIgnored ==
  /\ lastDevice.query = "device_conflicts" =>
       \A b \in lastDevice.found : bookings[b].status \notin Terminal
  /\ (lastDevice.query = "available_devices" /\ lastDevice.sd <= lastDevice.ed) =>
       \A d \in Devices :
         (/\ DeviceStatus(d) \in InServiceStatuses
          /\ \A b \in DOMAIN bookings :
               (<<d, b>> \in assignments /\ b # lastDevice.excl
                /\ Overlaps(bookings[b].lo, bookings[b].hi,
                            DeviceRange(lastDevice.sd, lastDevice.ed)[1],
                            DeviceRange(lastDevice.sd, lastDevice.ed)[2]))
                 => bookings[b].status \in Terminal)
           => d \in lastDevice.found

\* The devices not retired that no non-terminal booking overlapping [lo, hi)
\* is bound to.
UnboundDevices(lo, hi) ==
  {d \in Devices :
     /\ DeviceStatus(d) # "retired"
     /\ ~\E b \in DOMAIN bookings :
           /\ <<d, b>> \in assignments
           /\ bookings[b].status \notin Terminal
           /\ SharePositiveDuration(bookings[b].lo, bookings[b].hi, lo, hi)}

\* C18: check_device_availability counts no device that is bound to a
\* non-terminal booking overlapping the requested range, and answers
\* available = true exactly when its count is at least devices_needed.
C18_DeviceAvailabilityCount ==
  (lastDevice.query = "device_availability" /\ lastDevice.sd <= lastDevice.ed) =>
    /\ lastDevice.count <=
         Cardinality(UnboundDevices(AvailRange(lastDevice.sd, lastDevice.ed)[1],
                                    AvailRange(lastDevice.sd, lastDevice.ed)[2]))
    /\ lastDevice.flag <=> (lastDevice.count >= lastDevice.n)

\* Booking b covers the date: its period holds a part of that day.
Covers(b, date) ==
  SharePositiveDuration(bookings[b].lo, bookings[b].hi,
                        At(date, T0000), At(date + 1, T0000))

\* The devices not retired that no non-terminal booking covering the date
\* is bound to.
InStock(date) ==
  {d \in Devices :
     /\ DeviceStatus(d) # "retired"
     /\ ~\E b \in DOMAIN bookings :
           /\ <<d, b>> \in assignments
           /\ bookings[b].status \notin Terminal
           /\ Covers(b, date)}

\* C19: check_stock_levels answers is_low = true exactly when fewer devices
\* than the threshold are in stock on the date, a device bound to a
\* non-terminal booking that covers the date not being in stock.
C19_LowStockSignal ==
  lastDevice.query = "stock_levels" =>
    (lastDevice.flag <=> (Cardinality(InStock(lastDevice.sd)) < lastDevice.n))

(***************************************************************************)
(* Claims about the pool manager singleton, checked under SpecSingleton    *)
(***************************************************************************)

\* The managers held by the agents and their loggers.
HeldManagers ==
  {got[p].agent : p \in Callers} \cup {got[p].logger : p \in Callers}

\* C20: at most one AgentPoolManager is ever created, and every agent and
\* logger that holds a manager holds the same one.
C20_OneManager ==
  /\ managers <= 1
  /\ Cardinality(HeldManagers \ {None}) <= 1

(***************************************************************************)
(* Claims about the connection guard under concurrent callers (SpecPool)   *)
(***************************************************************************)

\* Caller p has been given a handle by the yield and its with statement has
\* not finished: the time it counts as holding a handle.
Holding(p) == yielded[p] > 0 /\ pc[p] \notin {"idle", "done"}

RECURSIVE SumDelta(_)
SumDelta(S) ==
  IF S = {} THEN 0
  ELSE LET p == CHOOSE q \in S : TRUE IN delta[p] + SumDelta(S \ {p})

\* C21: the callers' net contribution to _connection_count equals the number
\* of callers that hold a handle in their with-block: 1 for each from its
\* increment to its decrement, 0 for every other.
C21_CountEqualsHolders ==
  SumDelta(Callers) = Cardinality({p \in Callers : Holding(p)})

\* The handles checked out through get_agent_connection: those the agents
\* outside the modelled callers hold throughout, and those taken from the
\* pool by the modelled callers.
CheckedOut ==
  (connection_count - SumDelta(Callers)) + Cardinality(Handles \ inPool)

\* The count from which the breaker rejects every new caller.
BreakerLimit == CHOOSE n \in 0..maxconn :
                  BreakerTrips(n) /\ \A m \in 0..(n - 1) : ~BreakerTrips(m)

\* C27: the handles checked out at the same time never exceed the count from
\* which the breaker rejects every new caller (11).
C27_BreakerBoundsCheckouts == CheckedOut <= BreakerLimit

(***************************************************************************)
(* Claims about the handles of the pool of db.py, checked under            *)
(* SpecHandles                                                             *)
(***************************************************************************)

\* Client c has handle h checked out and no other client has it.
OwnsExclusively(c, h) ==
  /\ h \in Out
  /\ \A d \in Clients \ {c} : h \notin {hconn[d].outer, hconn[d].inner}

\* C22: run_transaction rolls a handle back only while its caller still has
\* it checked out, before putconn, and never a handle another caller may
\* have checked out.
C22_RollbackWhileOwned ==
  [][\A c \in Clients :
       (hpc[c] = "rt_rollback" /\ hpc'[c] = "idle") =>
         OwnsExclusively(c, hconn[c].outer)
    ]_vars

\* C30: assign_room never holds two handles at a time, and never ends at
\* the getconn of its conflict check, finding the pool exhausted.
C30_OneHandlePerOperation ==
  [][\A c \in Clients :
       /\ hconn'[c].outer # None => hconn'[c].inner = None
       /\ ~(hpc[c] = "ar_check" /\ hpc'[c] = "idle")
    ]_vars

(***************************************************************************)
(* Claims about the outcome of refused and failed writes                   *)
(***************************************************************************)

\* C23: a write that the exclusion constraint refuses ends with the
\* double-booking outcome: the INSERT of db.create_booking, and the UPDATE of
\* assign_room, which in this model only the constraint refuses.
C23_ViolationReportedAsConflict ==
  [][\A c \in Clients :
       /\ (/\ cpc[c] = "cb_failed" /\ cpc'[c] = "idle"
           /\ job[c].error = "ExclusionViolation") =>
            res'[c] = "DoubleBookingPrevented"
       /\ (cpc[c] = "ar_update" /\ cpc'[c] = "idle") =>
            res'[c] = "DoubleBookingPrevented"
    ]_vars

\* C28: the result of assign_room agrees with the stored state: a call that
\* does not return success has changed no booking.
C28_ResultAgreesWithState ==
  [][\A c \in Clients :
       (/\ cpc[c] \in {"ar_update", "ar_commit"} /\ cpc'[c] = "idle"
        /\ res'[c] # "ok") => bookings' = bookings
    ]_vars

(***************************************************************************)
(* Further claims about device assignments, checked under SpecDevice       *)
(***************************************************************************)

\* C24: assign_device is atomic: in no state has a booking lost its
\* category-level placeholder without a device being bound to it.
C24_AssignDeviceAtomic ==
  [][\A b \in placeholders :
       b \notin placeholders' => \E d \in Devices : <<d, b>> \in assignments'
    ]_vars

(***************************************************************************)
(* Claims about validation, checked under SpecApprove                      *)
(***************************************************************************)

\* C25: no stored booking has an invalid period: the end of every row is
\* after its start.
C25_NoInvalidRangeStored ==
  \A i \in DOMAIN bookings : bookings[i].lo < bookings[i].hi

\* C26: for an existing source and an existing target booking, the same one
\* included, can_reallocate_device answers can_reallocate = true with the
\* classification of the source against today: completed when its end date
\* is before today, in progress when it has started and is not completed,
\* not started otherwise.
C26_CanReallocateInforms ==
  (/\ lastDevice.query = "can_reallocate"
   /\ lastDevice.from \in DOMAIN bookings
   /\ lastDevice.to \in DOMAIN bookings) =>
    LET src == bookings[lastDevice.from]
        class == IF DateOf(src.hi) < lastDevice.today THEN "completed"
                 ELSE IF DateOf(src.lo) <= lastDevice.today THEN "in progress"
                 ELSE "not started"
    IN  /\ lastDevice.answer.can_reallocate
        /\ lastDevice.answer.reason = class

\* C29: no device is bound at the same time to two different non-terminal
\* bookings whose periods intersect.
C29_NoDeviceDoubleBound ==
  \A d \in Devices : \A x \in DOMAIN bookings, y \in DOMAIN bookings :
    (/\ x # y
     /\ <<d, x>> \in assignments /\ <<d, y>> \in assignments
     /\ bookings[x].status \notin Terminal
     /\ bookings[y].status \notin Terminal) =>
      ~SharePositiveDuration(bookings[x].lo, bookings[x].hi,
                             bookings[y].lo, bookings[y].hi)

====
